---- MODULE Spec2Model ----
(***************************************************************************)
(* Model of the weather backend: the Express routes                        *)
(*   GET /api/weather/:city, GET /api/forecast/:city, GET /api/history,    *)
(*   DELETE /api/history, GET /api/cities/search                           *)
(* over the two MongoDB collections WeatherCache and SearchHistory.        *)
(*                                                                         *)
(* Strings are sequences of one-character strings, so that toLowerCase and *)
(* includes are computed character by character.  Times are milliseconds,  *)
(* as returned by Date.now().                                              *)
(*                                                                         *)
(* An async handler runs from one await to the next without interruption;  *)
(* each action below is one such run, started by the completion of the     *)
(* operation the handler was awaiting.  The handlers are those of          *)
(* src/unnamed/part_000; src/server.js holds the same handlers, but calls  *)
(* app.listen(PORT) before PORT is declared and so stops while loading.    *)
(***************************************************************************)
EXTENDS Integers, Sequences, FiniteSets, TLC

VARIABLES
    now,        \* the clock read by Date.now() / new Date()
    cache,      \* the WeatherCache collection: a set of documents
    history,    \* the SearchHistory collection: documents in insertion order
    req,        \* the GET /api/weather/:city requests, by request number
    out,        \* the response sent by the step just taken, if it sent one
    feed,       \* the forecast list the provider answers the next forecast call with
    tz          \* the host's offset from UTC, in seconds

vars == <<now, cache, history, req, out, feed, tz>>

-----------------------------------------------------------------------------
(* Bounds of the model. *)

\* number of GET /api/weather/:city requests made
MaxReq == 2
\* length of the longest query of GET /api/cities/search
MaxQueryLen == 2
\* length of the longest forecast list, of samples that differ in time alone
MaxFeed == 10
\* length of the longest forecast list, of samples that differ in their readings
MaxReadings == 3
\* number of documents of the longest search history
MaxHistory == 11
\* number of times a search history goes from one city name to another
MaxChanges == 2

-----------------------------------------------------------------------------
(* Strings. *)

UpperChars == <<"A","B","C","D","E","F","G","H","I","J","K","L","M",
                "N","O","P","Q","R","S","T","U","V","W","X","Y","Z">>
LowerChars == <<"a","b","c","d","e","f","g","h","i","j","k","l","m",
                "n","o","p","q","r","s","t","u","v","w","x","y","z">>

\* the lowercase letter of each uppercase letter
LowerOf == [c \in { UpperChars[i] : i \in 1..26 } |->
              LowerChars[CHOOSE i \in 1..26 : UpperChars[i] = c]]

LowerChar(c) == IF c \in DOMAIN LowerOf THEN LowerOf[c] ELSE c

\* String.prototype.toLowerCase
toLowerCase(s) == [i \in 1..Len(s) |-> LowerChar(s[i])]

\* String.prototype.includes
includes(s, q) ==
    \E i \in 0..(Len(s) - Len(q)) : \A j \in 1..Len(q) : s[i + j] = q[j]

Pune == <<"P","u","n","e">>
pune == <<"p","u","n","e">>
Delhi == <<"D","e","l","h","i">>

\* the :city parameters the requests carry
CityParams == {Pune, pune, Delhi}

-----------------------------------------------------------------------------
(* Responses. *)

NoData == [name |-> <<>>, dt |-> -1]
\* a response: the route and the request it answers (the number of the weather
\* request, the query of the search request), the status and the JSON body
NoOut == [route |-> "", req |-> 0, q |-> <<>>, status |-> 0, message |-> "", body |-> <<>>]

\* res.json(body)
Json(route, r, body) == [NoOut EXCEPT !.route = route, !.req = r, !.status = 200, !.body = body]
\* res.status(code).json({ message })
Fail(route, r, code, message) ==
    [NoOut EXCEPT !.route = route, !.req = r, !.status = code, !.message = message]

-----------------------------------------------------------------------------
(* The clock. *)

CACHE_TTL_MS == 10 * 60 * 1000

\* the instants at which the model reads the clock
Times == {0, CACHE_TTL_MS - 1000, CACHE_TTL_MS, CACHE_TTL_MS + 1000}

Tick ==
    /\ \E t \in Times : t > now /\ now' = t
    /\ out' = NoOut
    /\ UNCHANGED <<cache, history, req, feed, tz>>

-----------------------------------------------------------------------------
(* The provider. *)

\* the name the provider reports for a city, however the request wrote it:
\* the name with its first letter in upper case
ProviderName(city) ==
    LET lower == toLowerCase(city)
    IN  [i \in 1..Len(lower) |->
           IF i = 1 /\ \E k \in 1..26 : LowerChars[k] = lower[1]
           THEN UpperChars[CHOOSE k \in 1..26 : LowerChars[k] = lower[1]]
           ELSE lower[i]]

\* the current-weather payloads the provider may answer with at time t
ProviderPayloads(city, t) == { [name |-> ProviderName(city), dt |-> t] }

-----------------------------------------------------------------------------
(* GET /api/weather/:city *)

WEATHER == "GET /api/weather/:city"

Idle == [pc |-> "idle", city |-> <<>>, since |-> 0, data |-> NoData, at |-> 0]

\* a handler that has returned keeps only the place it returned from (and,
\* when it answered from the cache, the time bound of its query)
Returned(pc) == [Idle EXCEPT !.pc = pc]

\* the filter with $gt in place of $gte
CacheQueryExclusive(city, since) ==
    { d \in cache : d.city = toLowerCase(city) /\ d.cachedAt > since }

\* the filter of WeatherCache.findOne
CacheQuery(city, since) ==
    { d \in cache : d.city = toLowerCase(city) /\ d.cachedAt >= since }

\* an insert in place of the upsert
UpsertAlwaysInserts(coll, key, doc) == coll \cup {doc}

\* WeatherCache.findOneAndUpdate(filter, update, { upsert: true })
Upsert(coll, key, doc) ==
    IF \E d \in coll : d.city = key
    THEN LET old == CHOOSE d \in coll : d.city = key
         IN  (coll \ {old}) \cup {doc}
    ELSE coll \cup {doc}

\* the request arrives: the handler builds the cache query and awaits findOne
WeatherStart(r) ==
    /\ req[r].pc = "idle"
    /\ \A q \in 1..(r - 1) : req[q].pc # "idle"
    /\ \E city \in CityParams :
         req' = [req EXCEPT ![r] = [Idle EXCEPT !.pc = "findOne", !.city = city,
                                                !.since = now - CACHE_TTL_MS]]
    /\ out' = NoOut
    /\ UNCHANGED <<now, cache, history, feed, tz>>

\* findOne resolves: a hit is answered from the cache, a miss awaits the provider
WeatherFindOne(r) ==
    /\ req[r].pc = "findOne"
    /\ LET found == CacheQuery(req[r].city, req[r].since)
       IN  \/ /\ found # {}
              /\ \E cached \in found :
                   /\ req' = [req EXCEPT ![r].pc = "hit", ![r].city = <<>>]
                   /\ out' = Json(WEATHER, r, cached.data)
           \/ /\ found = {}
              /\ req' = [req EXCEPT ![r].pc = "axios", ![r].since = 0]
              /\ out' = NoOut
    /\ UNCHANGED <<now, cache, history, feed, tz>>

\* findOne rejects
WeatherFindOneFails(r) ==
    /\ req[r].pc = "findOne"
    /\ req' = [req EXCEPT ![r] = Returned("findOneFailed")]
    /\ out' = Fail(WEATHER, r, 404, "City not found")
    /\ UNCHANGED <<now, cache, history, feed, tz>>

\* axios.get resolves: the handler builds the cache document and awaits the upsert
WeatherFetched(r) ==
    /\ req[r].pc = "axios"
    /\ \E payload \in ProviderPayloads(req[r].city, now) :
         req' = [req EXCEPT ![r].pc = "upsert", ![r].data = payload, ![r].at = now]
    /\ out' = NoOut
    /\ UNCHANGED <<now, cache, history, feed, tz>>

\* axios.get rejects, and the handler also drops the entry of the city
WeatherFetchFailsEvicts(r) ==
    /\ req[r].pc = "axios"
    /\ req' = [req EXCEPT ![r] = Returned("axiosFailed")]
    /\ out' = Fail(WEATHER, r, 404, "City not found")
    /\ cache' = { d \in cache : d.city # toLowerCase(req[r].city) }
    /\ UNCHANGED <<now, history, feed, tz>>

\* axios.get rejects
WeatherFetchFails(r) ==
    /\ req[r].pc = "axios"
    /\ req' = [req EXCEPT ![r] = Returned("axiosFailed")]
    /\ out' = Fail(WEATHER, r, 404, "City not found")
    /\ UNCHANGED <<now, cache, history, feed, tz>>

\* findOneAndUpdate resolves: the handler builds the history document and awaits create
WeatherUpserted(r) ==
    /\ req[r].pc = "upsert"
    /\ cache' = Upsert(cache, toLowerCase(req[r].city),
                       [city |-> toLowerCase(req[r].city), data |-> req[r].data,
                        cachedAt |-> req[r].at])
    /\ req' = [req EXCEPT ![r].pc = "create", ![r].city = <<>>, ![r].at = now]
    /\ out' = NoOut
    /\ UNCHANGED <<now, history, feed, tz>>

\* findOneAndUpdate rejects
WeatherUpsertFails(r) ==
    /\ req[r].pc = "upsert"
    /\ req' = [req EXCEPT ![r] = Returned("upsertFailed")]
    /\ out' = Fail(WEATHER, r, 404, "City not found")
    /\ UNCHANGED <<now, cache, history, feed, tz>>

\* create resolves: the fetched payload is the response
WeatherCreated(r) ==
    /\ req[r].pc = "create"
    /\ history' = Append(history, [city |-> req[r].data.name, searchedAt |-> req[r].at])
    /\ req' = [req EXCEPT ![r] = Returned("served")]
    /\ out' = Json(WEATHER, r, req[r].data)
    /\ UNCHANGED <<now, cache, feed, tz>>

\* create rejects
WeatherCreateFails(r) ==
    /\ req[r].pc = "create"
    /\ req' = [req EXCEPT ![r] = Returned("createFailed")]
    /\ out' = Fail(WEATHER, r, 404, "City not found")
    /\ UNCHANGED <<now, cache, history, feed, tz>>

-----------------------------------------------------------------------------
(* GET /api/history and DELETE /api/history *)

HISTORY_LIMIT == 10

\* the orders .sort({ searchedAt: -1 }) may return the documents at the
\* positions S of h in: latest first, documents of equal time in any order
RECURSIVE SortedDesc(_, _)
SortedDesc(h, S) ==
    IF S = {} THEN {<<>>}
    ELSE UNION { { <<h[i]>> \o t : t \in SortedDesc(h, S \ {i}) } :
                 i \in { i \in S : \A j \in S : h[j].searchedAt <= h[i].searchedAt } }

\* .limit(n)
Limit(s, n) == SubSeq(s, 1, IF Len(s) < n THEN Len(s) ELSE n)

\* the forEach with the names compared as they are written
RECURSIVE UniqueAsWritten(_, _, _)
UniqueAsWritten(docs, seen, uniqueHistory) ==
    IF docs = <<>> THEN uniqueHistory
    ELSE LET item == Head(docs)
         IN  IF item.city \notin seen
             THEN UniqueAsWritten(Tail(docs), seen \cup {item.city},
                                  Append(uniqueHistory, item))
             ELSE UniqueAsWritten(Tail(docs), seen, uniqueHistory)

\* the forEach over the documents found: the first document of each
\* lowercased city is kept
RECURSIVE Unique(_, _, _)
Unique(docs, seen, uniqueHistory) ==
    IF docs = <<>> THEN uniqueHistory
    ELSE LET item == Head(docs)
         IN  IF toLowerCase(item.city) \notin seen
             THEN Unique(Tail(docs), seen \cup {toLowerCase(item.city)},
                         Append(uniqueHistory, item))
             ELSE Unique(Tail(docs), seen, uniqueHistory)

GET_HISTORY == "GET /api/history"
DELETE_HISTORY == "DELETE /api/history"

\* find resolves and the handler answers
GetHistory ==
    /\ \E sorted \in SortedDesc(history, DOMAIN history) :
         out' = Json(GET_HISTORY, 0, Unique(Limit(sorted, HISTORY_LIMIT), {}, <<>>))
    /\ UNCHANGED <<now, cache, history, req, feed, tz>>

\* find rejects
GetHistoryFails ==
    /\ out' = Fail(GET_HISTORY, 0, 500, "Error fetching history")
    /\ UNCHANGED <<now, cache, history, req, feed, tz>>

\* deleteOne in place of deleteMany
DeleteHistoryOne ==
    /\ history' = IF history = <<>> THEN <<>> ELSE Tail(history)
    /\ out' = [Json(DELETE_HISTORY, 0, <<>>) EXCEPT !.message = "History cleared"]
    /\ UNCHANGED <<now, cache, req, feed, tz>>

\* deleteMany resolves
DeleteHistory ==
    /\ history' = <<>>
    /\ out' = [Json(DELETE_HISTORY, 0, <<>>) EXCEPT !.message = "History cleared"]
    /\ UNCHANGED <<now, cache, req, feed, tz>>

\* deleteMany rejects
DeleteHistoryFails ==
    /\ out' = Fail(DELETE_HISTORY, 0, 500, "Error clearing history")
    /\ UNCHANGED <<now, cache, history, req, feed, tz>>

-----------------------------------------------------------------------------
(* GET /api/forecast/:city *)

FORECAST == "GET /api/forecast/:city"
FORECAST_DAYS == 7
SECONDS_PER_DAY == 86400

\* new Date(dt * 1000).toLocaleDateString('en-IN'): the calendar day, on the
\* host's clock, that the instant dt (seconds since the epoch) falls on.  The
\* day is kept as its number since the epoch; the string d/m/yyyy written for
\* it is different for different days, and is no array index, so that the
\* keys of an object stay in the order they were added in.
toLocaleDateString(dt) == (dt + tz) \div SECONDS_PER_DAY

\* array.reduce((a, b) => a + b)
RECURSIVE reduce(_)
reduce(a) == IF Len(a) = 1 THEN a[1] ELSE reduce(SubSeq(a, 1, Len(a) - 1)) + a[Len(a)]

\* truncation in place of rounding
MathTrunc(sum, n) ==
    IF sum >= 0 THEN sum \div n ELSE -((-sum) \div n)

\* Math.round(sum / n): the integer nearest to the quotient, the larger one
\* of the two when it lies halfway between them
MathRound(sum, n) == (2 * sum + n) \div (2 * n)

\* the forEach over response.data.list: grouped, as the keys in the order
\* they were added in and the bucket of each key
RECURSIVE Grouped(_)
Grouped(list) ==
    IF list = <<>> THEN [keys |-> <<>>, bucket |-> <<>>]
    ELSE LET g == Grouped(SubSeq(list, 1, Len(list) - 1))
             item == list[Len(list)]
             date == toLocaleDateString(item.dt)
             known == \E k \in 1..Len(g.keys) : g.keys[k] = date
             k == IF known THEN CHOOSE k \in 1..Len(g.keys) : g.keys[k] = date
                  ELSE Len(g.keys) + 1
             b == IF known THEN g.bucket[k]
                  ELSE [temps |-> <<>>, humidity |-> <<>>, wind |-> <<>>,
                        description |-> item.description, icon |-> item.icon]
             pushed == [b EXCEPT !.temps = Append(@, item.temp),
                                 !.humidity = Append(@, item.humidity),
                                 !.wind = Append(@, item.wind)]
         IN  IF known THEN [g EXCEPT !.bucket[k] = pushed]
             ELSE [keys |-> Append(g.keys, date), bucket |-> Append(g.bucket, pushed)]

\* the last seven keys in place of the first seven
DaysKeptLast(keys) ==
    IF Len(keys) < FORECAST_DAYS THEN 1..Len(keys)
    ELSE (Len(keys) - FORECAST_DAYS + 1)..Len(keys)

\* Object.keys(grouped).slice(0, 7): the places of the keys kept
DaysKept(keys) ==
    IF Len(keys) < FORECAST_DAYS THEN 1..Len(keys) ELSE 1..FORECAST_DAYS

\* the forEach over the keys kept: dailyData.  Wind speeds are in tenths, so
\* that the rounded mean is the number toFixed(1) writes.
DailyData(list) ==
    LET g == Grouped(list)
        kept == DaysKept(g.keys)
        first == IF kept = {} THEN 1 ELSE CHOOSE k \in kept : \A j \in kept : k <= j
    IN  [i \in 1..Cardinality(kept) |->
           LET data == g.bucket[first + i - 1]
           IN  [date |-> g.keys[first + i - 1],
                temperature |-> MathRound(reduce(data.temps), Len(data.temps)),
                humidity |-> MathRound(reduce(data.humidity), Len(data.humidity)),
                windSpeed |-> MathRound(reduce(data.wind), Len(data.wind)),
                description |-> data.description,
                icon |-> data.icon]]

\* axios.get resolves with the provider's list and the handler answers
Forecast ==
    /\ out' = Json(FORECAST, 0, DailyData(feed))
    /\ UNCHANGED <<now, cache, history, req, feed, tz>>

\* axios.get rejects
ForecastFails ==
    /\ out' = Fail(FORECAST, 0, 404, "Forecast data not available")
    /\ UNCHANGED <<now, cache, history, req, feed, tz>>

-----------------------------------------------------------------------------
(* GET /api/cities/search *)

SEARCH == "GET /api/cities/search"
SEARCH_LIMIT == 5

indianCities == <<
    <<"M","u","m","b","a","i">>, <<"D","e","l","h","i">>, <<"B","a","n","g","a","l","o","r","e">>,
    <<"H","y","d","e","r","a","b","a","d">>, <<"A","h","m","e","d","a","b","a","d">>,
    <<"C","h","e","n","n","a","i">>, <<"K","o","l","k","a","t","a">>, <<"S","u","r","a","t">>,
    <<"P","u","n","e">>, <<"J","a","i","p","u","r">>, <<"L","u","c","k","n","o","w">>,
    <<"K","a","n","p","u","r">>, <<"N","a","g","p","u","r">>, <<"I","n","d","o","r","e">>,
    <<"T","h","a","n","e">>, <<"B","h","o","p","a","l">>,
    <<"V","i","s","a","k","h","a","p","a","t","n","a","m">>, <<"P","a","t","n","a">>,
    <<"V","a","d","o","d","a","r","a">>, <<"G","h","a","z","i","a","b","a","d">>,
    <<"L","u","d","h","i","a","n","a">>, <<"A","g","r","a">>, <<"N","a","s","h","i","k">>,
    <<"F","a","r","i","d","a","b","a","d">>, <<"M","e","e","r","u","t">>,
    <<"R","a","j","k","o","t">>, <<"V","a","r","a","n","a","s","i">>,
    <<"S","r","i","n","a","g","a","r">>, <<"A","u","r","a","n","g","a","b","a","d">>,
    <<"A","m","r","i","t","s","a","r">>, <<"N","a","v","i"," ","M","u","m","b","a","i">>,
    <<"A","l","l","a","h","a","b","a","d">>, <<"R","a","n","c","h","i">>,
    <<"C","o","i","m","b","a","t","o","r","e">>, <<"J","a","b","a","l","p","u","r">>,
    <<"G","w","a","l","i","o","r">>, <<"V","i","j","a","y","a","w","a","d","a">>,
    <<"J","o","d","h","p","u","r">>, <<"M","a","d","u","r","a","i">>, <<"R","a","i","p","u","r">>,
    <<"K","o","t","a">>, <<"C","h","a","n","d","i","g","a","r","h">>,
    <<"G","u","w","a","h","a","t","i">>, <<"S","o","l","a","p","u","r">>,
    <<"M","y","s","o","r","e">>, <<"B","a","r","e","i","l","l","y">>,
    <<"A","l","i","g","a","r","h">>, <<"M","o","r","a","d","a","b","a","d">>,
    <<"J","a","l","a","n","d","h","a","r">>, <<"B","h","u","b","a","n","e","s","w","a","r">>,
    <<"S","a","l","e","m">>, <<"W","a","r","a","n","g","a","l">>,
    <<"T","h","i","r","u","v","a","n","a","n","t","h","a","p","u","r","a","m">>,
    <<"N","o","i","d","a">>, <<"J","a","m","s","h","e","d","p","u","r">>,
    <<"B","h","i","l","a","i">>, <<"C","u","t","t","a","c","k">>,
    <<"D","e","h","r","a","d","u","n">>, <<"D","u","r","g","a","p","u","r">>,
    <<"A","s","a","n","s","o","l">>, <<"R","o","u","r","k","e","l","a">>,
    <<"N","a","n","d","e","d">>, <<"K","o","l","h","a","p","u","r">>, <<"A","j","m","e","r">>,
    <<"U","j","j","a","i","n">>, <<"J","h","a","n","s","i">>, <<"J","a","m","m","u">>,
    <<"M","a","n","g","a","l","o","r","e">>, <<"E","r","o","d","e">>,
    <<"U","d","a","i","p","u","r">>, <<"P","a","n","i","p","a","t">> >>

\* indianCities.filter(...): the names, in the order of the list, that
\* contain q when both are lowercased
filter(names, q) ==
    LET match == { i \in 1..Len(names) : includes(toLowerCase(names[i]), toLowerCase(q)) }
    IN  [k \in 1..Cardinality(match) |->
           names[CHOOSE i \in match : Cardinality({ j \in match : j <= i }) = k]]

\* what becomes of a request whose handler throws outside any try: the
\* rejection of an async handler is not handled by Express 4, and the request
\* is never answered; Express 5 passes it to its error handler, which answers
\* 500 with the error itself
Uncaught(route, error) ==
    { [NoOut EXCEPT !.route = route, !.message = "no response"],
      [NoOut EXCEPT !.route = route, !.status = 500, !.message = error] }

\* the handler, for the query parameter q: [defined |-> FALSE] when the
\* request has none
CitySearch(q) ==
    /\ IF q.defined
       THEN out' = [Json(SEARCH, 0, Limit(filter(indianCities, q.value), SEARCH_LIMIT))
                      EXCEPT !.q = q.value]
       ELSE out' \in Uncaught(SEARCH, "TypeError: Cannot read properties of undefined")
    /\ UNCHANGED <<now, cache, history, req, feed, tz>>

-----------------------------------------------------------------------------

Init ==
    /\ now = 0
    /\ cache = {}
    /\ history = <<>>
    /\ req = [r \in 1..MaxReq |-> Idle]
    /\ out = NoOut
    /\ feed = <<>>
    /\ tz = 0

\* GET /api/weather/:city under the clock of the process
Next ==
    \/ Tick
    \/ \E r \in 1..MaxReq : WeatherStart(r)
    \/ \E r \in 1..MaxReq : WeatherFindOne(r)
    \/ \E r \in 1..MaxReq : WeatherFindOneFails(r)
    \/ \E r \in 1..MaxReq : WeatherFetched(r)
    \/ \E r \in 1..MaxReq : WeatherFetchFails(r)
    \/ \E r \in 1..MaxReq : WeatherUpserted(r)
    \/ \E r \in 1..MaxReq : WeatherUpsertFails(r)
    \/ \E r \in 1..MaxReq : WeatherCreated(r)
    \/ \E r \in 1..MaxReq : WeatherCreateFails(r)

Spec == Init /\ [][Next]_vars

\* the weather route and the history routes side by side, over a stretch in
\* which the clock of the process does not advance
NextRoutes ==
    \/ \E r \in 1..MaxReq : WeatherStart(r)
    \/ \E r \in 1..MaxReq : WeatherFindOne(r)
    \/ \E r \in 1..MaxReq : WeatherFindOneFails(r)
    \/ \E r \in 1..MaxReq : WeatherFetched(r)
    \/ \E r \in 1..MaxReq : WeatherFetchFails(r)
    \/ \E r \in 1..MaxReq : WeatherUpserted(r)
    \/ \E r \in 1..MaxReq : WeatherUpsertFails(r)
    \/ \E r \in 1..MaxReq : WeatherCreated(r)
    \/ \E r \in 1..MaxReq : WeatherCreateFails(r)
    \/ GetHistory
    \/ GetHistoryFails
    \/ DeleteHistory
    \/ DeleteHistoryFails

SpecRoutes == Init /\ [][NextRoutes]_vars

-----------------------------------------------------------------------------
(* GET /api/cities/search alone. *)

\* the characters of the queries
QueryChars == {"a", "e", "i", "u", "d", "m", "n", "p", "M", " "}

\* the query parameters: none, or a string of at most MaxQueryLen characters
Queries ==
    { [defined |-> FALSE, value |-> <<>>] } \cup
    { [defined |-> TRUE, value |-> v] :
        v \in UNION { [1..n -> QueryChars] : n \in 0..MaxQueryLen } }

NextSearch == \E q \in Queries : CitySearch(q)

SpecSearch == Init /\ [][NextSearch]_vars

\* C5 as stated: every request is answered, with 200 or with one of the fixed
\* messages under 404 or 500.
C5_EveryRequestAnswered ==
    out.route # "" =>
        \/ out.status = 200
        \/ out.status = 404 /\ out.message \in {"City not found", "Forecast data not available"}
        \/ out.status = 500 /\ out.message \in {"Error fetching history", "Error clearing history"}

-----------------------------------------------------------------------------
(* GET /api/history alone, over longer histories. *)

\* the number of documents whose city is not that of the document before
Changes(h) == Cardinality({ i \in 2..Len(h) : h[i].city # h[i - 1].city })

\* SearchHistory.create for one more search of the city searched last, later
HistoryRepeat ==
    /\ history # <<>>
    /\ Len(history) < MaxHistory
    /\ history' = Append(history, [city |-> history[Len(history)].city,
                                   searchedAt |-> history[Len(history)].searchedAt + 1])
    /\ out' = NoOut
    /\ UNCHANGED <<now, cache, req, feed, tz>>

\* SearchHistory.create for a search of another city, before the city searched
\* last is searched again: the creates of concurrent requests reach the store
\* in any order, so the document is stamped before, at or after the time of
\* the last one
HistoryInsert ==
    /\ Len(history) < MaxHistory
    /\ Changes(history) < MaxChanges \/ history = <<>>
    /\ Changes(history) = Len(history) - 1 \/ history = <<>>
    /\ \E name \in CityParams :
         IF history = <<>>
         THEN history' = <<[city |-> name, searchedAt |-> MaxChanges]>>
         ELSE /\ name # history[Len(history)].city
              /\ \E d \in {-1, 0, 1} :
                   history' = Append(history,
                                     [city |-> name,
                                      searchedAt |-> history[Len(history)].searchedAt + d])
    /\ out' = NoOut
    /\ UNCHANGED <<now, cache, req, feed, tz>>

NextHistory == HistoryRepeat \/ HistoryInsert \/ GetHistory

SpecHistory == Init /\ [][NextHistory]_vars

\* the step just taken answered GET /api/history from the documents of history
Listed == out.route = GET_HISTORY /\ out.status = 200

\* the number of documents newer than document i
Newer(i) == Cardinality({ j \in 1..Len(history) : history[j].searchedAt > history[i].searchedAt })

\* the number of other documents at least as new as document i
NotOlder(i) ==
    Cardinality({ j \in 1..Len(history) :
                    j # i /\ history[j].searchedAt >= history[i].searchedAt })

\* the documents of a city, whatever its case
DocsOf(city) == { i \in 1..Len(history) : toLowerCase(history[i].city) = toLowerCase(city) }

\* C7: GET /api/history answers with the first document of each lowercased
\* city among the 10 most recent documents: at most 10 entries, latest first, no
\* lowercased city twice, each entry the latest document of its city, every city
\* of the 10 most recent documents present and no city present whose documents
\* all lie beyond the 10 most recent.
C7_RecentUnique ==
    Listed =>
        LET body == out.body
        IN  /\ Len(body) <= 10
            /\ \A i, j \in 1..Len(body) :
                 i < j => /\ body[i].searchedAt >= body[j].searchedAt
                          /\ toLowerCase(body[i].city) # toLowerCase(body[j].city)
            /\ \A k \in 1..Len(body) :
                 /\ \E i \in 1..Len(history) : history[i] = body[k] /\ Newer(i) < 10
                 /\ \A i \in DocsOf(body[k].city) : history[i].searchedAt <= body[k].searchedAt
            /\ \A i \in 1..Len(history) :
                 NotOlder(i) < 10 =>
                    \E k \in 1..Len(body) : toLowerCase(body[k].city) = toLowerCase(history[i].city)

\* eleven documents have been listed: the city of one lies beyond the 10 most
\* recent and is left out, and a city written in two ways is listed once
C7_Witness ==
    /\ Listed
    /\ Len(history) = 11
    /\ \E i \in 1..Len(history) :
         \A k \in 1..Len(out.body) : toLowerCase(out.body[k].city) # toLowerCase(history[i].city)
    /\ \E i, j \in 1..Len(history) :
         /\ history[i].city # history[j].city
         /\ toLowerCase(history[i].city) = toLowerCase(history[j].city)
         /\ Newer(i) < 10 /\ Newer(j) < 10
    /\ out.body # <<>>

-----------------------------------------------------------------------------
(* GET /api/forecast/:city alone. *)

\* the offsets of the hosts: UTC and India
HostOffsets == {0, 19800}

\* the time of the first sample: 21:00 UTC on the sixth day of the epoch
StartDt == 5 * SECONDS_PER_DAY + 75600

Sample(dt, r) ==
    [dt |-> dt, temp |-> r.temp, humidity |-> r.humidity, wind |-> r.wind,
     description |-> r.description, icon |-> r.icon]

\* item.main.temp, item.main.humidity, item.wind.speed (in tenths),
\* item.weather[0].description and item.weather[0].icon of the samples
Readings ==
    { [temp |-> 10, humidity |-> 40, wind |-> 10, description |-> "clear sky", icon |-> "01d"],
      [temp |-> 20, humidity |-> 50, wind |-> 20, description |-> "few clouds", icon |-> "02d"],
      [temp |-> 21, humidity |-> 51, wind |-> 22, description |-> "light rain", icon |-> "10d"],
      [temp |-> -1, humidity |-> 40, wind |-> 35, description |-> "snow", icon |-> "13d"],
      [temp |-> -2, humidity |-> 51, wind |-> 0, description |-> "mist", icon |-> "50d"],
      [temp |-> -4, humidity |-> 100, wind |-> 7, description |-> "clear sky", icon |-> "01n"] }

\* the provider's list grows by a sample half a day or a day after the last
\* one, or a day before it
ProviderAppendsSlot ==
    /\ Len(feed) < MaxFeed
    /\ \E dt \in IF feed = <<>> THEN {StartDt}
                 ELSE { feed[Len(feed)].dt + d : d \in {43200, 86400, -86400} } :
         /\ dt >= 0
         /\ feed' = Append(feed, Sample(dt, CHOOSE r \in Readings : r.temp = 20))
    /\ out' = NoOut
    /\ UNCHANGED <<now, cache, history, req, tz>>

\* the provider's list grows by a sample of one of two days, with any readings
ProviderAppendsReading ==
    /\ Len(feed) < MaxReadings
    /\ \E dt \in {StartDt, StartDt + SECONDS_PER_DAY}, r \in Readings :
         feed' = Append(feed, Sample(dt, r))
    /\ out' = NoOut
    /\ UNCHANGED <<now, cache, history, req, tz>>

InitForecast ==
    /\ now = 0
    /\ cache = {}
    /\ history = <<>>
    /\ req = [r \in 1..MaxReq |-> Idle]
    /\ out = NoOut
    /\ feed = <<>>
    /\ tz \in HostOffsets

NextForecast == ProviderAppendsSlot \/ Forecast

SpecForecast == InitForecast /\ [][NextForecast]_vars

NextAverage == ProviderAppendsReading \/ Forecast \/ ForecastFails

SpecAverage == InitForecast /\ [][NextAverage]_vars

\* the step just taken answered the forecast request with the summaries of feed
Forecasted == out.route = FORECAST /\ out.status = 200

\* the date key of the i-th sample of the list
DayOf(i) == toLocaleDateString(feed[i].dt)

\* the places of the samples that are the first of their date
FirstOfDay == { i \in 1..Len(feed) : \A j \in 1..(i - 1) : DayOf(j) # DayOf(i) }

\* the place of sample i among the samples at the places first
Rank(first, i) == Cardinality({ j \in first : j <= i })

\* C9: the aggregator emits min(7, number of distinct date keys) summaries, no
\* date twice, in the order in which the dates first appear in the list; an
\* empty list gives an empty result.
C9_FirstSevenDays ==
    Forecasted =>
        LET first == FirstOfDay
            days == Cardinality(first)
        IN  /\ Len(out.body) = (IF days < 7 THEN days ELSE 7)
            /\ \A i, j \in 1..Len(out.body) : i # j => out.body[i].date # out.body[j].date
            /\ \A i \in first :
                 LET k == Rank(first, i)
                 IN  k <= 7 => out.body[k].date = DayOf(i)
            /\ feed = <<>> => out.body = <<>>

\* a list of more than seven dates, not in the order of the calendar, has
\* been summarised
C9_Witness ==
    /\ Forecasted
    /\ Cardinality(FirstOfDay) > 7
    /\ Len(out.body) = 7
    /\ \E i \in 1..6 : out.body[i].date > out.body[i + 1].date

\* the samples of the list that fall on a date
SamplesOf(date) ==
    LET OnDate(item) == toLocaleDateString(item.dt) = date
    IN  SelectSeq(feed, OnDate)

TempsOf(date) == [i \in 1..Len(SamplesOf(date)) |-> SamplesOf(date)[i].temp]
HumidityOf(date) == [i \in 1..Len(SamplesOf(date)) |-> SamplesOf(date)[i].humidity]

\* t is the integer nearest to sum / n, the one further from zero of the two
\* when sum / n lies halfway between them
NearestHalfAway(t, sum, n) ==
    IF sum >= 0 THEN 2 * n * t - n <= 2 * sum /\ 2 * sum < 2 * n * t + n
    ELSE 2 * n * t - n < 2 * sum /\ 2 * sum <= 2 * n * t + n

\* t is the integer nearest to sum / n, the larger of the two when sum / n
\* lies halfway between them
NearestHalfUp(t, sum, n) == 2 * n * t - n <= 2 * sum /\ 2 * sum < 2 * n * t + n

\* C10 as stated: the temperature and the humidity of a day are the means of
\* its samples, rounded to the nearest integer, halves away from zero.
C10_RoundsHalfAwayFromZero ==
    Forecasted =>
        \A i \in 1..Len(out.body) :
            LET day == out.body[i]
            IN  /\ NearestHalfAway(day.temperature, reduce(TempsOf(day.date)),
                                   Len(TempsOf(day.date)))
                /\ NearestHalfAway(day.humidity, reduce(HumidityOf(day.date)),
                                   Len(HumidityOf(day.date)))

\* C10 as amended: the temperature and the humidity of a day are the means of
\* its samples, rounded to the nearest integer, halves toward positive
\* infinity (so a negative mean that ends in .5 is rounded toward zero).
C10_RoundsHalfUp ==
    Forecasted =>
        \A i \in 1..Len(out.body) :
            LET day == out.body[i]
            IN  /\ NearestHalfUp(day.temperature, reduce(TempsOf(day.date)),
                                 Len(TempsOf(day.date)))
                /\ NearestHalfUp(day.humidity, reduce(HumidityOf(day.date)),
                                 Len(HumidityOf(day.date)))

\* a day whose mean temperature is negative and ends in .5 has been summarised
C10_Witness ==
    /\ Forecasted
    /\ \E i \in 1..Len(out.body) :
         LET temps == TempsOf(out.body[i].date)
         IN  /\ reduce(temps) < 0
             /\ (2 * reduce(temps)) % (2 * Len(temps)) = Len(temps)
             /\ 2 * out.body[i].temperature = (2 * reduce(temps)) \div Len(temps) + 1

-----------------------------------------------------------------------------
(* Properties of GET /api/weather/:city, checked under Spec, and of the     *)
(* history routes beside it, checked under SpecRoutes.                     *)

Requests == 1..MaxReq

\* Date.now() as the handler of request r read it when it built its query
ArrivedAt(r) == req[r].since + CACHE_TTL_MS

\* the stored entries for the city of request r
EntriesFor(r) == { d \in cache : d.city = toLowerCase(req[r].city) }

\* this step is the one in which findOne resolves for request r
LooksUp(r) == req[r].pc = "findOne" /\ req'[r].pc \in {"hit", "axios"}

\* C1 as stated: a stored entry is fresh exactly when now - cachedAt < 10 minutes;
\* a fresh entry is the response, anything else calls the provider.
C1_FreshStrictlyInsideWindow ==
    [][\A r \in Requests : LooksUp(r) =>
          (req'[r].pc = "hit" <=>
             \E d \in EntriesFor(r) : ArrivedAt(r) - d.cachedAt < CACHE_TTL_MS)]_vars

\* C1 as amended: a stored entry is fresh exactly when now - cachedAt <= 10 minutes
\* (an entry exactly ten minutes old is still served).  A fresh entry's payload
\* is the response, with no provider call and no write; otherwise the provider is
\* called, and the upsert that follows leaves the new document as the only entry
\* of the city.
C1_FreshUpToWindow ==
    [][\A r \in Requests :
          /\ LooksUp(r) =>
                /\ req'[r].pc = "hit" <=>
                      \E d \in EntriesFor(r) : ArrivedAt(r) - d.cachedAt <= CACHE_TTL_MS
                /\ req'[r].pc = "hit" =>
                      /\ \E d \in EntriesFor(r) :
                            /\ ArrivedAt(r) - d.cachedAt <= CACHE_TTL_MS
                            /\ out' = Json(WEATHER, r, d.data)
                      /\ cache' = cache /\ history' = history
                /\ req'[r].pc = "axios" => out' = NoOut
          /\ (req[r].pc = "upsert" /\ req'[r].pc = "create") =>
                { d \in cache' : d.city = toLowerCase(req[r].city) }
                  = { [city |-> toLowerCase(req[r].city), data |-> req[r].data,
                       cachedAt |-> req[r].at] }]_vars

\* a request that arrived exactly ten minutes after the entry of its city was
\* written has just been answered with that entry
C1_Witness ==
    \E r \in Requests :
        /\ req[r].pc = "hit"
        /\ \E d \in cache :
              d.cachedAt = req[r].since /\ out = Json(WEATHER, r, d.data)

\* C2: the cache holds at most one entry per lowercased city, and every change
\* of the cache is the upsert of one request, which replaces the entry of its
\* city by the payload that request fetched for that city.
C2_OneEntryPerCity ==
    /\ [](/\ \A d1, d2 \in cache : d1.city = d2.city => d1 = d2
          /\ \A d \in cache : /\ d.city = toLowerCase(d.city)
                               /\ d.data \in ProviderPayloads(d.city, d.data.dt)
                               /\ d.data.dt <= d.cachedAt
          /\ \A r \in Requests : req[r].pc = "upsert" =>
                req[r].data \in ProviderPayloads(req[r].city, req[r].at))
    /\ [][cache' # cache =>
            \E r \in Requests :
                /\ req[r].pc = "upsert" /\ req'[r].pc = "create"
                /\ cache' = { d \in cache : d.city # toLowerCase(req[r].city) }
                               \cup { [city |-> toLowerCase(req[r].city),
                                       data |-> req[r].data,
                                       cachedAt |-> req[r].at] }]_vars

\* two requests for the same city both missed the cache, fetched different
\* payloads and have both upserted; one entry is stored
C2_Witness ==
    /\ req[1].pc = "create" /\ req[2].pc = "create"
    /\ toLowerCase(req[1].data.name) = toLowerCase(req[2].data.name)
    /\ req[1].data # req[2].data
    /\ Cardinality(cache) = 1

\* the places a handler returns from
Returns == {"hit", "findOneFailed", "axiosFailed", "upsertFailed", "createFailed", "served"}

\* this step is the one in which the handler of request r returns
Finishes(r) == req[r].pc \notin Returns /\ req'[r].pc \in Returns

\* C3 as stated: under weather requests the history only grows, by exactly one
\* record for each request whose provider fetch succeeded and by none for any
\* other request.
C3_OneRecordPerFetch ==
    [][req' # req =>
          IF \E r \in Requests : Finishes(r) /\ req[r].data # NoData
          THEN Len(history') = Len(history) + 1 /\ SubSeq(history', 1, Len(history)) = history
          ELSE history' = history]_vars

\* C4 as stated: a request whose provider fetch succeeded answers 200 with the
\* fetched payload, whatever becomes of the cache write and the history write.
C4_WritesBestEffort ==
    [][\A r \in Requests : (Finishes(r) /\ req[r].data # NoData) =>
          out' = Json(WEATHER, r, req[r].data)]_vars

\* C6: when the provider call fails, the response is 404 { message: "City not
\* found" }, and no step of that request, from its arrival to that response,
\* changes the cache or the history.
C6_ProviderFailure ==
    [][\A r \in Requests :
          /\ (req[r].pc = "axios" /\ req'[r].pc = "axiosFailed") =>
                out' = Fail(WEATHER, r, 404, "City not found")
          /\ (req[r].pc \in {"idle", "findOne", "axios"} /\ req'[r] # req[r]) =>
                cache' = cache /\ history' = history]_vars

\* the provider call of a request has just failed while both stores hold data
C6_Witness ==
    \E r \in Requests :
        /\ req[r].pc = "axiosFailed"
        /\ out = Fail(WEATHER, r, 404, "City not found")
        /\ cache # {} /\ history # <<>>

\* C8: a DELETE /api/history answered 200 { message: "History cleared" } leaves
\* the history empty and the cache as it was, and a GET /api/history that
\* finds the history as the clear left it answers with the empty list.
C8_ClearThenList ==
    [][/\ (out'.route = DELETE_HISTORY /\ out'.status = 200) =>
            /\ out'.message = "History cleared"
            /\ history' = <<>>
            /\ cache' = cache
       /\ (out'.route = GET_HISTORY /\ out'.status = 200 /\ history = <<>>) =>
            out'.body = <<>>]_vars

\* the history of a served request has just been cleared; the cache keeps
\* its entry
C8_Witness ==
    /\ out.route = DELETE_HISTORY /\ out.status = 200
    /\ \E r \in Requests : req[r].pc = "served"
    /\ history = <<>>
    /\ cache # {}

====
